---- MODULE Spec2Model ----
(***************************************************************************)
(* Model of utils/in-sanity/main.py: the cross-reference validator          *)
(* sanitizer.dah_doctor, the reference scanner (the compiled pattern        *)
(* search_cobj and its finditer loop), lineNumber, and the secondary        *)
(* literal-occurrence pass.  Script texts are sequences of one-character    *)
(* strings, so offsets, line breaks and pattern matching are computed       *)
(* character by character as the code does.  The readers package (fleet,    *)
(* ship, outfit, unidiff) is not part of main.py; its find / get_unused /   *)
(* set_unknown are modelled from the specification of AssetRegistry.        *)
(***************************************************************************)
EXTENDS Integers, Sequences, FiniteSets, TLC

VARIABLES pc, step, luaScripts, show_unused, fileIdx, reg, errors, line,
          stderr, unused_data, trace

vars == <<pc, step, luaScripts, show_unused, fileIdx, reg, errors, line,
          stderr, unused_data, trace>>

(***************************************************************************)
(* Bounds                                                                   *)
(***************************************************************************)
\* longest list of script files handed to the validator
MaxFiles == 3

(***************************************************************************)
(* Characters and the fixed pieces of script text                           *)
(***************************************************************************)
NL == "\n"
TAB == "\t"
SPC == " "
QUOTE == "\""
\* the token "\s" that name.replace(' ', "\s") puts into the pattern
ReS == "\\s"
\* characters the class \s accepts (those that occur in the modelled texts)
Whitespace == {SPC, TAB, NL}

\* the four alternatives of the group (?P<func>...) of rawstr, in order
KwPilotAdd == <<"p", "i", "l", "o", "t", ".", "a", "d", "d", "(">>
KwPlayerAddShip ==
    <<"p", "l", "a", "y", "e", "r", ".", "a", "d", "d", "S", "h", "i", "p", "(">>
KwAddOutfit == <<"a", "d", "d", "O", "u", "t", "f", "i", "t", "(">>
KwDiffApply == <<"d", "i", "f", "f", ".", "a", "p", "p", "l", "y", "(">>
FuncAlternatives == <<KwPilotAdd, KwPlayerAddShip, KwAddOutfit, KwDiffApply>>

\* match.group('func')[:-1]
StripLast(s) == SubSeq(s, 1, Len(s) - 1)
FnPilotAdd == StripLast(KwPilotAdd)
FnPlayerAddShip == StripLast(KwPlayerAddShip)
FnAddOutfit == StripLast(KwAddOutfit)
FnDiffApply == StripLast(KwDiffApply)

(***************************************************************************)
(* lineNumber(string, start): start is a 0-based offset, string[k] of the   *)
(* code is text[k + 1] here.                                                *)
(***************************************************************************)
RECURSIVE CountNL(_, _)
\* string.count('\n', 0, start)
CountNL(text, start) ==
    IF start <= 0 THEN 0
    ELSE CountNL(text, start - 1) + (IF text[start] = NL THEN 1 ELSE 0)

RECURSIVE RFindNL(_, _)
\* string.rfind('\n', 0, start): highest index below start holding '\n', or -1
RFindNL(text, start) ==
    IF start <= 0 THEN -1
    ELSE IF text[start] = NL THEN start - 1
    ELSE RFindNL(text, start - 1)

\* lineNumber with a 0-based offset: the distance to the line's first character
lineNumberZeroBased(text, start) ==
    [lineno |-> CountNL(text, start) + 1,
     offset |-> start - RFindNL(text, start) - 1]

lineNumber(text, start) ==
    [lineno |-> CountNL(text, start) + 1,
     offset |-> start - RFindNL(text, start)]

(***************************************************************************)
(* search_cobj.finditer(text): the reference scanner                        *)
(***************************************************************************)
\* the literal pat occurs in text at 0-based offset i
LiteralAt(pat, text, i) ==
    /\ i + Len(pat) <= Len(text)
    /\ \A k \in 1..Len(pat) : text[i + k] = pat[k]

RECURSIVE ContentEnd(_, _)
\* [^"]+ is greedy: the 0-based offset just after the run of non-quote
\* characters that starts at offset j
ContentEnd(text, j) ==
    IF j >= Len(text) \/ text[j + 1] = QUOTE THEN j
    ELSE ContentEnd(text, j + 1)

\* alternative a of (?P<func>...) followed by "(?P<content>[^"]+) matches at i
FuncMatchesAt(a, text, i) ==
    LET q == i + Len(FuncAlternatives[a]) IN
    /\ LiteralAt(FuncAlternatives[a], text, i)
    /\ q < Len(text)
    /\ text[q + 1] = QUOTE
    /\ ContentEnd(text, q + 1) > q + 1

NoMatch == [ok |-> FALSE, start |-> 0, end |-> 0, func |-> <<>>, content |-> <<>>]

\* the match object of search_cobj at offset i, if any: the first alternative
\* that lets the whole pattern match wins
MatchAt(text, i) ==
    LET alts == {a \in 1..Len(FuncAlternatives) : FuncMatchesAt(a, text, i)} IN
    IF alts = {} THEN NoMatch
    ELSE LET a == CHOOSE b \in alts : \A c \in alts : b <= c
             q == i + Len(FuncAlternatives[a])
         IN [ok |-> TRUE, start |-> i, end |-> ContentEnd(text, q + 1),
             func |-> FuncAlternatives[a],
             content |-> SubSeq(text, q + 2, ContentEnd(text, q + 1))]

RECURSIVE FindIter(_, _)
\* the non-overlapping matches found scanning left to right from offset pos
FindIter(text, pos) ==
    IF pos >= Len(text) THEN <<>>
    ELSE LET m == MatchAt(text, pos) IN
         IF m.ok THEN <<m>> \o FindIter(text, m.end)
         ELSE FindIter(text, pos + 1)

\* the info dict built for one match (lines 143-149)
Info(text, m) ==
    [lineno |-> lineNumber(text, m.start).lineno,
     offset |-> lineNumber(text, m.start).offset,
     func |-> StripLast(m.func),
     content |-> m.content]

\* the reference sites of a text, in scan order
Scan(text) ==
    LET ms == FindIter(text, 0) IN [k \in 1..Len(ms) |-> Info(text, ms[k])]

(***************************************************************************)
(* The data tree and the script files on disk                               *)
(***************************************************************************)
\* tocheck (lines 180-181), in its order
Categories == <<"fleet", "unidiff", "ship", "outfit">>
CategorySet == {Categories[k] : k \in 1..Len(Categories)}

NameL == <<"L">>
NameLK == <<"L", SPC, "K">>
NameP == <<"P">>
NameD == <<"D">>

\* the entity names the four readers load from datpath: two ship names of
\* which one is a prefix of the other, and one name shared by ship and outfit
DataNames ==
    [fleet |-> {NameP}, unidiff |-> {NameD},
     ship |-> {NameL, NameLK}, outfit |-> {NameL}]

\* keyword("name")
Call(kw, name) == kw \o <<QUOTE>> \o name \o <<QUOTE, ")">>

\* player.addShip("L") / player.addShip("H"): one known and one unknown ship
TextShips ==
    Call(KwPlayerAddShip, NameL) \o <<NL>> \o Call(KwPlayerAddShip, <<"H">>)
\* a / b / pilot.add("X")
TextThirdLine == <<"a", NL, "b", NL>> \o Call(KwPilotAdd, <<"X">>)
\* -- L K / -- D / --<TAB>L<TAB>K / addOutfit("Z")diff.apply("Y")pilot.add("P"):
\* comments that hold bare names, once with a space and once with tabs, and
\* two unresolved calls followed by a resolved one on one line
TextComment ==
    <<"-", "-", SPC>> \o NameLK \o <<NL, "-", "-", SPC>> \o NameD
        \o <<NL, "-", "-", TAB, "L", TAB, "K", NL>>
        \o Call(KwAddOutfit, <<"Z">>) \o Call(KwDiffApply, <<"Y">>)
        \o Call(KwPilotAdd, NameP)
\* one resolving call for every entity of the data tree
TextAll ==
    Call(KwPilotAdd, NameP) \o <<NL>> \o Call(KwDiffApply, NameD) \o <<NL>>
        \o Call(KwPlayerAddShip, NameL) \o <<NL>>
        \o Call(KwPlayerAddShip, NameLK) \o <<NL>>
        \o Call(KwAddOutfit, NameL)

Paths == {"ships.lua", "third.lua", "comment.lua", "all.lua"}

\* what open(file).read() returns for a readable file
DiskText(p) ==
    CASE p = "ships.lua" -> TextShips
      [] p = "third.lua" -> TextThirdLine
      [] p = "comment.lua" -> TextComment
      [] p = "all.lua" -> TextAll

\* the reference sites of every file on disk
SitesOf == [p \in Paths |-> Scan(DiskText(p))]

RECURSIVE SeqsUpTo(_, _)
\* the sequences over S of length at most n
SeqsUpTo(S, n) ==
    IF n = 0 THEN {<<>>}
    ELSE LET shorter == SeqsUpTo(S, n - 1) IN
         shorter \cup {Append(s, x) : s \in {t \in shorter : Len(t) = n - 1}, x \in S}

(***************************************************************************)
(* AssetRegistry: find, get_unused, set_unknown of the readers              *)
(***************************************************************************)
\* the registries before construction
NoRegistry == [c \in CategorySet |-> <<>>]
\* the four registries as constructed: every entity with usageCount 0
NewRegistry == [c \in CategorySet |-> [n \in DataNames[c] |-> 0]]

\* find(name): known names are counted, unknown names have no effect
find(r, cat, name) ==
    IF name \in DOMAIN r[cat]
    THEN [found |-> TRUE, reg |-> [r EXCEPT ![cat][name] = @ + 1]]
    ELSE [found |-> FALSE, reg |-> r]

\* get_unused(): the names with usageCount 0
get_unused(r, cat) == {n \in DOMAIN r[cat] : r[cat][n] = 0}

\* set_unknown(name): a known name gets a nonzero usageCount
set_unknown(r, cat, name) ==
    IF name \in DOMAIN r[cat]
    THEN [r EXCEPT ![cat][name] = IF @ = 0 THEN 1 ELSE @]
    ELSE r

(***************************************************************************)
(* The event log: the calls and writes of one run, in program order         *)
(***************************************************************************)
Ev(op, idx, cat, func, arg, ln, col, ok, res) ==
    [op |-> op, idx |-> idx, cat |-> cat, func |-> func, arg |-> arg,
     ln |-> ln, col |-> col, ok |-> ok, res |-> res]

\* self._errorstring % info: the text carries exactly these four values
ErrorString(info) ==
    [kind |-> "diag", file |-> "", content |-> info.content,
     func |-> info.func, lineno |-> info.lineno, offset |-> info.offset]

\* "I/O error: {0}".format(error)
IOErrorString(path) ==
    [kind |-> "ioerror", file |-> path, content |-> <<>>, func |-> <<>>,
     lineno |-> 0, offset |-> 0]

\* one line printed to sys.stderr during loop iteration idx
StderrEv(idx, l) ==
    Ev("stderr", idx, l.kind, l.func, l.content, l.lineno, l.offset, TRUE, {})

(***************************************************************************)
(* PrimaryScan: one match of the finditer loop (lines 143-166)              *)
(***************************************************************************)
\* Dispatch with two tests exchanged: a ship reference is looked up among the
\* outfits and an outfit reference among the ships
DispatchSwapped(func) ==
    CASE func = FnPilotAdd -> "fleet"
      [] func = FnAddOutfit -> "ship"
      [] func = FnPlayerAddShip -> "outfit"
      [] func = FnDiffApply -> "unidiff"

\* the four tests on info['func'] (lines 151-162)
Dispatch(func) ==
    CASE func = FnPilotAdd -> "fleet"
      [] func = FnAddOutfit -> "outfit"
      [] func = FnPlayerAddShip -> "ship"
      [] func = FnDiffApply -> "unidiff"

\* DoctorSite without line 166: the flag `this` is never cleared
DoctorSiteKeepThis(st, info, idx) ==
    LET cat == Dispatch(info.func)
        f == find(st.reg, cat, info.content)
        this == st.this \/ ~f.found
        findEv == Ev("find", idx, cat, info.func, info.content,
                     info.lineno, info.offset, f.found, {})
        diagEv == Ev("diag", idx, cat, info.func, info.content,
                     info.lineno, info.offset, FALSE, {})
    IN [reg |-> f.reg,
        errors |-> IF this THEN Append(st.errors, ErrorString(info))
                   ELSE st.errors,
        trace |-> IF this THEN st.trace \o <<findEv, diagEv>>
                  ELSE Append(st.trace, findEv),
        this |-> this]

\* DoctorSite testing membership without registering the usage
DoctorSiteNoUse(st, info, idx) ==
    LET cat == Dispatch(info.func)
        f == find(st.reg, cat, info.content)
        this == st.this \/ ~f.found
        findEv == Ev("find", idx, cat, info.func, info.content,
                     info.lineno, info.offset, f.found, {})
        diagEv == Ev("diag", idx, cat, info.func, info.content,
                     info.lineno, info.offset, FALSE, {})
    IN [reg |-> st.reg,
        errors |-> IF this THEN Append(st.errors, ErrorString(info))
                   ELSE st.errors,
        trace |-> IF this THEN st.trace \o <<findEv, diagEv>>
                  ELSE Append(st.trace, findEv),
        this |-> FALSE]

\* One pass through the body of the finditer loop.  st = [reg, errors, trace,
\* this] is what the loop carries, info the site, idx the loop iteration.
DoctorSite(st, info, idx) ==
    LET cat == Dispatch(info.func)
        f == find(st.reg, cat, info.content)
        this == st.this \/ ~f.found
        findEv == Ev("find", idx, cat, info.func, info.content,
                     info.lineno, info.offset, f.found, {})
        diagEv == Ev("diag", idx, cat, info.func, info.content,
                     info.lineno, info.offset, FALSE, {})
    IN [reg |-> f.reg,
        errors |-> IF this THEN Append(st.errors, ErrorString(info))
                   ELSE st.errors,
        trace |-> IF this THEN st.trace \o <<findEv, diagEv>>
                  ELSE Append(st.trace, findEv),
        this |-> FALSE]

RECURSIVE DoctorSites(_, _, _, _)
\* the loop over the matches of one file, from site k on; s is the state
\* after site k, computed once before the loop goes on
DoctorSites(st, sites, k, idx) ==
    IF k > Len(sites) THEN st
    ELSE CHOOSE r \in {DoctorSites(s, sites, k + 1, idx) :
                          s \in {DoctorSite(st, sites[k], idx)}} : TRUE

\* CachePut into a list instead of a dict: a path read again gets a second
\* entry
CachePutAppend(cache, path, text) ==
    Append(cache, [file |-> path, content |-> text])

\* line[file] = text: a dict keeps the position of a key it already holds
CachePut(cache, path, text) ==
    IF \E k \in 1..Len(cache) : cache[k].file = path
    THEN [k \in 1..Len(cache) |->
            IF cache[k].file = path THEN [file |-> path, content |-> text]
            ELSE cache[k]]
    ELSE Append(cache, [file |-> path, content |-> text])

(***************************************************************************)
(* SecondaryScan: the per-category alternation (lines 190-202) and its      *)
(* finditer (lines 204-210)                                                 *)
(***************************************************************************)
\* name.replace(' ', "\s"): the pattern tokens of one alternative
NameToPattern(name) ==
    [k \in 1..Len(name) |-> IF name[k] = SPC THEN ReS ELSE name[k]]

\* rname[:-1]: the alternatives of (?P<category>...) in the order of data
BuildMatcher(data) == [k \in 1..Len(data) |-> NameToPattern(data[k])]

\* one pattern token against one character of the text
TokenMatches(tok, ch) == IF tok = ReS THEN ch \in Whitespace ELSE ch = tok

\* the alternative pat matches the text at 0-based offset i
PatternAt(pat, text, i) ==
    /\ i + Len(pat) <= Len(text)
    /\ \A k \in 1..Len(pat) : TokenMatches(pat[k], text[i + k])

RECURSIVE FindIterAlt(_, _, _)
\* cobj.finditer(content) from offset pos: at each offset the first
\* alternative that matches wins and the scan resumes after the match; the
\* result is the matched texts, groups[category], in order
FindIterAlt(alts, text, pos) ==
    IF pos >= Len(text) THEN <<>>
    ELSE LET hit == {a \in 1..Len(alts) : PatternAt(alts[a], text, pos)} IN
         IF hit = {} THEN FindIterAlt(alts, text, pos + 1)
         ELSE LET a == CHOOSE b \in hit : \A c \in hit : b <= c
                  e == pos + Len(alts[a])
              IN  <<SubSeq(text, pos + 1, e)>> \o FindIterAlt(alts, text, e)

\* the orders in which a set can be iterated
Orderings(S) ==
    {s \in [1..Cardinality(S) -> S] :
        \A i, j \in 1..Cardinality(S) : i # j => s[i] # s[j]}

\* the matchers line 202 can compile: one for every non-empty list of names
\* of one category, in every order
Matchers ==
    {BuildMatcher(d) : d \in UNION {Orderings(S) :
        S \in UNION {SUBSET DataNames[c] \ {{}} : c \in CategorySet}}}

\* cobj.finditer(content) for every matcher and every text on disk: the
\* result depends on nothing else, so it is computed once
GroupsOf ==
    [t \in {DiskText(p) : p \in Paths} |->
        [m \in Matchers |-> FindIterAlt(m, t, 0)]]

RECURSIVE UnknownMatchesAll(_, _, _, _, _)
\* UnknownMatches without the test key == category of line 209: set_unknown
\* is called on every registry of tocheck
UnknownMatchesAll(st, cat, groups, k, fidx) ==
    IF k > Len(groups) THEN st
    ELSE CHOOSE r \in {UnknownMatchesAll(s, cat, groups, k + 1, fidx) :
            s \in {[reg |-> set_unknown(
                               set_unknown(
                                   set_unknown(
                                       set_unknown(st.reg, "fleet", groups[k]),
                                       "unidiff", groups[k]),
                                   "ship", groups[k]),
                               "outfit", groups[k]),
                    trace |-> st.trace \o
                       [c \in 1..Len(Categories) |->
                          Ev("set_unknown", fidx, Categories[c], <<>>,
                             groups[k], 0, 0,
                             groups[k] \in DOMAIN st.reg[Categories[c]],
                             {})]]}} : TRUE

RECURSIVE UnknownMatches(_, _, _, _, _)
\* obj.set_unknown(groups[category]) for the matches of one matcher in one
\* cached text, from match k on; st = [reg, trace]
UnknownMatches(st, cat, groups, k, fidx) ==
    IF k > Len(groups) THEN st
    ELSE CHOOSE r \in {UnknownMatches(s, cat, groups, k + 1, fidx) :
            s \in {[reg |-> set_unknown(st.reg, cat, groups[k]),
                    trace |-> Append(st.trace,
                                Ev("set_unknown", fidx, cat, <<>>, groups[k],
                                   0, 0, groups[k] \in DOMAIN st.reg[cat],
                                   {}))]}} : TRUE

RECURSIVE UnknownCategories(_, _, _, _, _)
\* the loop over mcobj.items() for one cached text, from matcher c on
UnknownCategories(st, mcobj, content, c, fidx) ==
    IF c > Len(mcobj) THEN st
    ELSE CHOOSE r \in {UnknownCategories(s, mcobj, content, c + 1, fidx) :
            s \in {UnknownMatches(st, mcobj[c].key,
                                  GroupsOf[content][mcobj[c].cobj], 1,
                                  fidx)}} : TRUE

RECURSIVE UnknownFiles(_, _, _, _)
\* the loop over line.items(), from cache entry f on
UnknownFiles(st, mcobj, cache, f) ==
    IF f > Len(cache) THEN st
    ELSE CHOOSE r \in {UnknownFiles(s, mcobj, cache, f + 1) :
            s \in {UnknownCategories(st, mcobj, cache[f].content, 1, f)}} :
            TRUE

RECURSIVE UnusedDataAll(_, _, _)
\* UnusedData without the len(tmp) > 0 test taking effect: a category with
\* nothing unused is recorded with all of its names
UnusedDataAll(lists, k, acc) ==
    IF k > Len(Categories) THEN acc
    ELSE UnusedDataAll(lists, k + 1,
                       Append(acc,
                              [key |-> Categories[k],
                               data |-> IF Len(lists[Categories[k]]) > 0
                                        THEN lists[Categories[k]]
                                        ELSE CHOOSE o \in Orderings(
                                                 DataNames[Categories[k]]) :
                                                 TRUE]))

RECURSIVE UnusedData(_, _, _)
\* the loop of lines 182-185 from tocheck entry k on: lists[c] is what
\* get_unused() returned for category c; empty results are not recorded
UnusedData(lists, k, acc) ==
    IF k > Len(Categories) THEN acc
    ELSE UnusedData(lists, k + 1,
                    IF Len(lists[Categories[k]]) > 0
                    THEN Append(acc, [key |-> Categories[k],
                                      data |-> lists[Categories[k]]])
                    ELSE acc)

\* the calls of get_unused, in tocheck order
UnusedEvents(r) ==
    [k \in 1..Len(Categories) |->
        Ev("get_unused", 0, Categories[k], <<>>, <<>>, 0, 0, TRUE,
           get_unused(r, Categories[k]))]

\* the report calls with showMissingTech moved under the show_unused test
ReportEventsGated(r, flag) ==
    IF flag
    THEN <<Ev("showMissingTech", 0, "outfit", <<>>, <<>>, 0, 0, TRUE, {}),
           Ev("showMissingTech", 0, "ship", <<>>, <<>>, 0, 0, TRUE, {}),
           Ev("show_unused", 0, "outfit", <<>>, <<>>, 0, 0, TRUE,
              get_unused(r, "outfit")),
           Ev("show_unused", 0, "ship", <<>>, <<>>, 0, 0, TRUE,
              get_unused(r, "ship")),
           Ev("show_unused", 0, "fleet", <<>>, <<>>, 0, 0, TRUE,
              get_unused(r, "fleet")),
           Ev("show_unused", 0, "unidiff", <<>>, <<>>, 0, 0, TRUE,
              get_unused(r, "unidiff"))>>
    ELSE <<>>

\* the report calls of lines 212-222, in order
ReportEvents(r, flag) ==
    <<Ev("showMissingTech", 0, "outfit", <<>>, <<>>, 0, 0, TRUE, {}),
      Ev("showMissingTech", 0, "ship", <<>>, <<>>, 0, 0, TRUE, {})>>
    \o (IF flag
        THEN <<Ev("show_unused", 0, "outfit", <<>>, <<>>, 0, 0, TRUE,
                  get_unused(r, "outfit")),
               Ev("show_unused", 0, "ship", <<>>, <<>>, 0, 0, TRUE,
                  get_unused(r, "ship")),
               Ev("show_unused", 0, "fleet", <<>>, <<>>, 0, 0, TRUE,
                  get_unused(r, "fleet")),
               Ev("show_unused", 0, "unidiff", <<>>, <<>>, 0, 0, TRUE,
                  get_unused(r, "unidiff"))>>
        ELSE <<>>)

(***************************************************************************)
(* The run of dah_doctor                                                    *)
(***************************************************************************)
Init ==
    /\ pc = "Init"
    /\ step = "flush"
    /\ luaScripts \in SeqsUpTo(Paths, MaxFiles)
    /\ show_unused \in BOOLEAN
    /\ fileIdx = 1
    /\ reg = NoRegistry
    /\ errors = <<>>
    /\ line = <<>>
    /\ stderr = <<>>
    /\ unused_data = <<>>
    /\ trace = <<>>

\* lines 99-128: the readers are constructed
Construct ==
    /\ pc = "Init"
    /\ pc' = "PrimaryScan"
    /\ reg' = NewRegistry
    /\ trace' = Append(trace, Ev("construct", 0, "", <<>>, <<>>, 0, 0, TRUE, {}))
    /\ UNCHANGED <<step, luaScripts, show_unused, fileIdx, errors, line,
                   stderr, unused_data>>

\* lines 101-112: a reader raises, the exception leaves dah_doctor
ConstructFail ==
    /\ pc = "Init"
    /\ pc' = "Abort"
    /\ trace' = Append(trace, Ev("construct", 0, "", <<>>, <<>>, 0, 0, FALSE, {}))
    /\ UNCHANGED <<step, luaScripts, show_unused, fileIdx, reg, errors, line,
                   stderr, unused_data>>

\* FlushPending that prints only a batch: a single pending Diagnostic is
\* kept for later
FlushPendingMany ==
    /\ pc = "PrimaryScan"
    /\ step = "flush"
    /\ fileIdx <= Len(luaScripts)
    /\ LET out == IF Len(errors) > 1 THEN errors ELSE <<>> IN
       /\ stderr' = stderr \o out
       /\ errors' = IF Len(errors) > 1 THEN <<>> ELSE errors
       /\ trace' = Append(trace,
                          Ev("file", fileIdx, "", <<>>, <<>>, 0, 0, TRUE, {}))
                     \o [k \in 1..Len(out) |-> StderrEv(fileIdx, out[k])]
    /\ step' = "read"
    /\ UNCHANGED <<pc, luaScripts, show_unused, fileIdx, reg, line, unused_data>>

\* FlushPending without line 137: the printed errors stay in the list
FlushPendingKeep ==
    /\ pc = "PrimaryScan"
    /\ step = "flush"
    /\ fileIdx <= Len(luaScripts)
    /\ stderr' = stderr \o errors
    /\ errors' = errors
    /\ trace' = Append(trace, Ev("file", fileIdx, "", <<>>, <<>>, 0, 0, TRUE, {}))
                  \o [k \in 1..Len(errors) |-> StderrEv(fileIdx, errors[k])]
    /\ step' = "read"
    /\ UNCHANGED <<pc, luaScripts, show_unused, fileIdx, reg, line, unused_data>>

\* lines 131-137: the next file is taken, the pending errors are printed
FlushPending ==
    /\ pc = "PrimaryScan"
    /\ step = "flush"
    /\ fileIdx <= Len(luaScripts)
    /\ stderr' = stderr \o errors
    /\ errors' = <<>>
    /\ trace' = Append(trace, Ev("file", fileIdx, "", <<>>, <<>>, 0, 0, TRUE, {}))
                  \o [k \in 1..Len(errors) |-> StderrEv(fileIdx, errors[k])]
    /\ step' = "read"
    /\ UNCHANGED <<pc, luaScripts, show_unused, fileIdx, reg, line, unused_data>>

\* ScanFile with an unresolved reference treated as a failure: the run aborts
ScanFileAbortsOnMiss ==
    /\ pc = "PrimaryScan"
    /\ step = "read"
    /\ LET file == luaScripts[fileIdx]
           text == DiskText(file)
           st == DoctorSites(
                    [reg |-> reg, errors |-> errors,
                     trace |-> Append(trace, Ev("read", fileIdx, "", <<>>,
                                                <<>>, 0, 0, TRUE, {})),
                     this |-> FALSE],
                    SitesOf[file], 1, fileIdx)
       IN /\ line' = CachePut(line, file, text)
          /\ reg' = st.reg
          /\ errors' = st.errors
          /\ trace' = st.trace
          /\ pc' = IF st.errors # <<>> THEN "Abort" ELSE pc
    /\ fileIdx' = fileIdx + 1
    /\ step' = "flush"
    /\ UNCHANGED <<luaScripts, show_unused, stderr, unused_data>>

\* ScanFile with a scanner that remembers what it has seen: a text that is
\* already in the cache yields no site
ScanFileSkipCached ==
    /\ pc = "PrimaryScan"
    /\ step = "read"
    /\ LET file == luaScripts[fileIdx]
           text == DiskText(file)
           seen == \E k \in 1..Len(line) : line[k].content = text
           st == DoctorSites(
                    [reg |-> reg, errors |-> errors,
                     trace |-> Append(trace, Ev("read", fileIdx, "", <<>>,
                                                <<>>, 0, 0, TRUE, {})),
                     this |-> FALSE],
                    IF seen THEN <<>> ELSE SitesOf[file], 1, fileIdx)
       IN /\ line' = CachePut(line, file, text)
          /\ reg' = st.reg
          /\ errors' = st.errors
          /\ trace' = st.trace
    /\ fileIdx' = fileIdx + 1
    /\ step' = "flush"
    /\ UNCHANGED <<pc, luaScripts, show_unused, stderr, unused_data>>

\* lines 139-166: the file is read, cached and scanned
ScanFile ==
    /\ pc = "PrimaryScan"
    /\ step = "read"
    /\ LET file == luaScripts[fileIdx]
           text == DiskText(file)
           st == DoctorSites(
                    [reg |-> reg, errors |-> errors,
                     trace |-> Append(trace, Ev("read", fileIdx, "", <<>>,
                                                <<>>, 0, 0, TRUE, {})),
                     this |-> FALSE],
                    SitesOf[file], 1, fileIdx)
       IN /\ line' = CachePut(line, file, text)
          /\ reg' = st.reg
          /\ errors' = st.errors
          /\ trace' = st.trace
    /\ fileIdx' = fileIdx + 1
    /\ step' = "flush"
    /\ UNCHANGED <<pc, luaScripts, show_unused, stderr, unused_data>>

\* ReadIOError without the except IOError clause: the exception propagates
ReadIOErrorAborts ==
    /\ pc = "PrimaryScan"
    /\ step = "read"
    /\ pc' = "Abort"
    /\ trace' = Append(trace, Ev("read", fileIdx, "", <<>>, <<>>, 0, 0, FALSE, {}))
    /\ UNCHANGED <<step, luaScripts, show_unused, fileIdx, reg, errors, line,
                   stderr, unused_data>>

\* lines 140, 168-169: open or read raises IOError
ReadIOError ==
    /\ pc = "PrimaryScan"
    /\ step = "read"
    /\ stderr' = Append(stderr, IOErrorString(luaScripts[fileIdx]))
    /\ trace' = trace \o
          <<Ev("read", fileIdx, "", <<>>, <<>>, 0, 0, FALSE, {}),
            StderrEv(fileIdx, IOErrorString(luaScripts[fileIdx]))>>
    /\ fileIdx' = fileIdx + 1
    /\ step' = "flush"
    /\ UNCHANGED <<pc, luaScripts, show_unused, reg, errors, line, unused_data>>

\* ReadFatal with the exception swallowed: the loop goes on to the next file
ReadFatalSwallowed ==
    /\ pc = "PrimaryScan"
    /\ step = "read"
    /\ trace' = Append(trace, Ev("raise", fileIdx, "", <<>>, <<>>, 0, 0, FALSE, {}))
    /\ fileIdx' = fileIdx + 1
    /\ step' = "flush"
    /\ UNCHANGED <<pc, luaScripts, show_unused, reg, errors, line, stderr,
                   unused_data>>

\* lines 140, 170-171: read raises another exception (the bytes do not
\* decode), which is re-raised
ReadFatal ==
    /\ pc = "PrimaryScan"
    /\ step = "read"
    /\ pc' = "Abort"
    /\ trace' = Append(trace, Ev("raise", fileIdx, "", <<>>, <<>>, 0, 0, FALSE, {}))
    /\ UNCHANGED <<step, luaScripts, show_unused, fileIdx, reg, errors, line,
                   stderr, unused_data>>

\* lines 142-166, 170-171: the file is read and cached, the body of the
\* finditer loop raises at site k (a reader's find fails), after the sites
\* before it have been handled; the exception is re-raised
ScanFatal ==
    /\ pc = "PrimaryScan"
    /\ step = "read"
    /\ LET file == luaScripts[fileIdx]
           text == DiskText(file)
       IN \E k \in 1..Len(SitesOf[file]) :
            LET st == DoctorSites(
                        [reg |-> reg, errors |-> errors,
                         trace |-> Append(trace, Ev("read", fileIdx, "", <<>>,
                                                    <<>>, 0, 0, TRUE, {})),
                         this |-> FALSE],
                        SubSeq(SitesOf[file], 1, k - 1), 1, fileIdx)
            IN /\ line' = CachePut(line, file, text)
               /\ reg' = st.reg
               /\ errors' = st.errors
               /\ trace' = Append(st.trace, Ev("raise", fileIdx, "", <<>>, <<>>,
                                               0, 0, FALSE, {}))
    /\ pc' = "Abort"
    /\ UNCHANGED <<step, luaScripts, show_unused, fileIdx, stderr, unused_data>>

\* EndPrimaryScan leaving the loop before the list is exhausted
EndPrimaryScanEarly ==
    /\ pc = "PrimaryScan"
    /\ step = "flush"
    /\ pc' = "UnusedComputation"
    /\ UNCHANGED <<step, luaScripts, show_unused, fileIdx, reg, errors, line,
                   stderr, unused_data, trace>>

\* line 131: the list is exhausted
EndPrimaryScan ==
    /\ pc = "PrimaryScan"
    /\ step = "flush"
    /\ fileIdx > Len(luaScripts)
    /\ pc' = "UnusedComputation"
    /\ UNCHANGED <<step, luaScripts, show_unused, fileIdx, reg, errors, line,
                   stderr, unused_data, trace>>

\* lines 176-186: get_unused of every registry, in the order each returns
ComputeUnused ==
    /\ pc = "UnusedComputation"
    /\ \E lists \in [CategorySet -> UNION {Orderings(get_unused(reg, c)) :
                                            c \in CategorySet}] :
          /\ \A c \in CategorySet : lists[c] \in Orderings(get_unused(reg, c))
          /\ unused_data' = UnusedData(lists, 1, <<>>)
    /\ trace' = trace \o UnusedEvents(reg)
    /\ pc' = "SecondaryScan"
    /\ UNCHANGED <<step, luaScripts, show_unused, fileIdx, reg, errors, line,
                   stderr>>

\* lines 188-210: the matchers are built and every cached text is searched
SecondaryScan ==
    /\ pc = "SecondaryScan"
    /\ LET mcobj == [k \in 1..Len(unused_data) |->
                        [key |-> unused_data[k].key,
                         cobj |-> BuildMatcher(unused_data[k].data)]]
           st == IF Len(unused_data) > 0
                 THEN UnknownFiles([reg |-> reg, trace |-> trace], mcobj, line, 1)
                 ELSE [reg |-> reg, trace |-> trace]
       IN /\ reg' = st.reg
          /\ trace' = st.trace
    /\ pc' = "Report"
    /\ UNCHANGED <<step, luaScripts, show_unused, fileIdx, errors, line,
                   stderr, unused_data>>

\* lines 212-222: the reports
Report ==
    /\ pc = "Report"
    /\ trace' = trace \o ReportEvents(reg, show_unused)
    /\ pc' = "Done"
    /\ UNCHANGED <<step, luaScripts, show_unused, fileIdx, reg, errors, line,
                   stderr, unused_data>>

Next ==
    \/ Construct
    \/ ConstructFail
    \/ FlushPending
    \/ ReadIOError
    \/ ReadFatal
    \/ ScanFile
    \/ ScanFatal
    \/ EndPrimaryScan
    \/ ComputeUnused
    \/ SecondaryScan
    \/ Report

Spec == Init /\ [][Next]_vars

\* dah_doctor is one sequential thread: as long as a statement is left to
\* execute, one is executed
FairSpec == Spec /\ WF_vars(Next)

(***************************************************************************)
(* Reading the event log                                                    *)
(***************************************************************************)
\* the registry a call kind belongs to
KindRegistry(func) ==
    IF func = FnPilotAdd THEN "fleet"
    ELSE IF func = FnPlayerAddShip THEN "ship"
    ELSE IF func = FnAddOutfit THEN "outfit"
    ELSE "unidiff"

\* the Diagnostic of a site, as it is printed
DiagOf(e) ==
    [kind |-> "diag", file |-> "", content |-> e.arg, func |-> e.func,
     lineno |-> e.ln, offset |-> e.col]

Project(events) == [k \in 1..Len(events) |-> DiagOf(events[k])]

\* the Diagnostics produced while scanning the file of iteration i, in order
Produced(i) ==
    Project(SelectSeq(trace, LAMBDA e : e.op = "diag" /\ e.idx = i))

\* all Diagnostics produced so far, in order
ProducedAll == Project(SelectSeq(trace, LAMBDA e : e.op = "diag"))

\* the Diagnostics written to the error channel during iteration i, in order
Written(i) ==
    Project(SelectSeq(trace, LAMBDA e :
                e.op = "stderr" /\ e.cat = "diag" /\ e.idx = i))

\* the Diagnostic lines of the error channel
DiagLines(out) == SelectSeq(out, LAMBDA l : l.kind = "diag")

\* the sites for which find was called during iteration i, in order
FindSites(i) ==
    LET es == SelectSeq(trace, LAMBDA e : e.op = "find" /\ e.idx = i) IN
    [k \in 1..Len(es) |->
        [lineno |-> es[k].ln, offset |-> es[k].col, func |-> es[k].func,
         content |-> es[k].arg]]

\* iteration i read its file successfully
ReadOk(i) == \E k \in 1..Len(trace) :
    trace[k].op = "read" /\ trace[k].idx = i /\ trace[k].ok

\* iteration i read its file and scanned it to the end
Scanned(i) ==
    /\ ReadOk(i)
    /\ ~\E k \in 1..Len(trace) : trace[k].op = "raise" /\ trace[k].idx = i

\* iteration i failed to read its file with an I/O error
ReadFailed(i) == \E k \in 1..Len(trace) :
    trace[k].op = "read" /\ trace[k].idx = i /\ ~trace[k].ok

(***************************************************************************)
(* Claims                                                                   *)
(***************************************************************************)
\* C1 (Resolution): every reference site of a successfully read file gets
\* one find call, in scan order (up to the site at which a scan is aborted); a site whose argument is in the registry of its call kind
\* is found and yields no Diagnostic; a site whose argument is absent yields
\* exactly one Diagnostic with the site's call kind, argument, line and
\* column, and nothing else yields a Diagnostic.
Resolution ==
    /\ \A i \in 1..Len(luaScripts) :
          /\ Scanned(i) => FindSites(i) = SitesOf[luaScripts[i]]
          /\ ReadOk(i) =>
                /\ Len(FindSites(i)) <= Len(SitesOf[luaScripts[i]])
                /\ FindSites(i) = SubSeq(SitesOf[luaScripts[i]], 1,
                                         Len(FindSites(i)))
    /\ \A k \in 1..Len(trace) : trace[k].op = "find" =>
          LET e == trace[k]
              known == e.arg \in DataNames[KindRegistry(e.func)]
              followed == k < Len(trace) /\ trace[k + 1].op = "diag"
          IN IF known THEN e.ok /\ ~followed
             ELSE /\ ~e.ok
                  /\ followed
                  /\ DiagOf(trace[k + 1]) = DiagOf(e)
                  /\ trace[k + 1].idx = e.idx
    /\ \A k \in 1..Len(trace) : trace[k].op = "diag" =>
          k > 1 /\ trace[k - 1].op = "find"
    /\ DiagLines(stderr) \o errors = ProducedAll

\* a file was scanned in which one site resolved and another did not
ResolutionWitness ==
    \E j, k \in 1..Len(trace) :
        /\ trace[j].op = "find" /\ trace[j].ok
        /\ trace[k].op = "diag" /\ trace[k].idx = trace[j].idx

\* C2 (no diagnostic dropped): when the run is Done, every Diagnostic that
\* was appended to the pending list has been written to the error channel,
\* those of the last script file included.
NoDiagnosticDropped ==
    pc = "Done" => DiagLines(stderr) = ProducedAll

\* name occurs in text, any whitespace character standing for a space
OccursIn(name, text) ==
    \E i \in 0..(Len(text) - Len(name)) :
        \A k \in 1..Len(name) :
            IF name[k] = SPC THEN text[i + k] \in Whitespace
            ELSE text[i + k] = name[k]

\* C3 (Unknown suppression): once SecondaryScan has run, a name that was in
\* a registry's get_unused() result before it and that occurs literally in
\* some cached text (any whitespace in place of a space) is no longer in
\* get_unused(), also when unused names overlap.
UnknownSuppression ==
    pc \in {"Report", "Done"} =>
        \A k \in 1..Len(unused_data) : \A n \in 1..Len(unused_data[k].data) :
            (\E f \in 1..Len(line) :
                OccursIn(unused_data[k].data[n], line[f].content))
            => unused_data[k].data[n] \notin get_unused(reg, unused_data[k].key)

\* the run has left PrimaryScan without a fatal error
AfterPrimaryScan ==
    pc \in {"UnusedComputation", "SecondaryScan", "Report", "Done"}

\* C4 (I/O resilience): an I/O error on a script file is answered by a
\* warning on the error channel, the file contributes nothing, the loop moves
\* on, every later readable file is scanned in full, every file of the list
\* is attempted before the run leaves PrimaryScan, and the run aborts only
\* on a raised non-I/O error or a failed construction.
IOResilience ==
    /\ \A k \in 1..Len(trace) : (trace[k].op = "read" /\ ~trace[k].ok) =>
          LET i == trace[k].idx IN
          /\ k < Len(trace)
          /\ trace[k + 1] = StderrEv(i, IOErrorString(luaScripts[i]))
          /\ \E j \in 1..Len(stderr) : stderr[j] = IOErrorString(luaScripts[i])
          /\ FindSites(i) = <<>>
          /\ Produced(i) = <<>>
          /\ fileIdx > i
          /\ \A m \in (i + 1)..Len(luaScripts) :
                Scanned(m) => FindSites(m) = SitesOf[luaScripts[m]]
    /\ AfterPrimaryScan =>
          \A i \in 1..Len(luaScripts) : ReadOk(i) \/ ReadFailed(i)
    /\ pc = "Abort" =>
          /\ Len(trace) > 0
          /\ trace[Len(trace)].op \in {"raise", "construct"}

\* of three files the second was unreadable, the first and third were scanned
IOResilienceWitness ==
    /\ pc = "Done"
    /\ Len(luaScripts) = 3
    /\ ReadOk(1) /\ ReadFailed(2) /\ ReadOk(3)
    /\ FindSites(1) # <<>> /\ FindSites(3) # <<>>

\* C5 (Usage monotonicity): no step lowers a usageCount, and a name for
\* which find has returned true is never in get_unused() afterwards.
UsageMonotonicity ==
    /\ [][\A c \in CategorySet : \A n \in DOMAIN reg[c] :
            reg'[c][n] >= reg[c][n]]_vars
    /\ [](\A k \in 1..Len(trace) : (trace[k].op = "find" /\ trace[k].ok) =>
            trace[k].arg \notin get_unused(reg, KindRegistry(trace[k].func)))

\* a name was found more than once and set_unknown marked another name
UsageMonotonicityWitness ==
    /\ pc = "Done"
    /\ \E c \in CategorySet : \E n \in DOMAIN reg[c] : reg[c][n] >= 2
    /\ \E k \in 1..Len(trace) : trace[k].op = "set_unknown" /\ trace[k].ok

PhaseRank(p) ==
    CASE p = "Init" -> 0
      [] p = "PrimaryScan" -> 1
      [] p = "UnusedComputation" -> 2
      [] p = "SecondaryScan" -> 3
      [] p = "Report" -> 4
      [] p = "Done" -> 5
      [] p = "Abort" -> 6

\* C6 (Phase ordering): the phase only ever advances to the next one (or to
\* the abort state from Init and PrimaryScan); no find follows a get_unused;
\* get_unused is called once per registry, after every script file has been
\* attempted, and its results are what the matchers are built from; every
\* set_unknown follows every find and every get_unused.
PhaseOrdering ==
    /\ [][pc' # pc =>
            \/ pc' # "Abort" /\ PhaseRank(pc') = PhaseRank(pc) + 1
            \/ pc' = "Abort" /\ pc \in {"Init", "PrimaryScan"}]_vars
    /\ [](\A j, k \in 1..Len(trace) : j < k =>
            /\ ~(trace[j].op = "get_unused" /\ trace[k].op = "find")
            /\ ~(trace[j].op = "set_unknown"
                 /\ trace[k].op \in {"find", "get_unused"})
            /\ ~(trace[j].op = "get_unused" /\ trace[k].op = "get_unused"
                 /\ trace[j].cat = trace[k].cat))
    /\ [](\A k \in 1..Len(trace) : trace[k].op = "get_unused" =>
            /\ \A i \in 1..Len(luaScripts) : \E j \in 1..(k - 1) :
                  trace[j].op = "read" /\ trace[j].idx = i
            /\ trace[k].res # {} =>
                  \E u \in 1..Len(unused_data) :
                      /\ unused_data[u].key = trace[k].cat
                      /\ {unused_data[u].data[n] :
                             n \in 1..Len(unused_data[u].data)} = trace[k].res)

\* a finished run that made find, get_unused and set_unknown calls
PhaseOrderingWitness ==
    /\ pc = "Done"
    /\ Len(luaScripts) >= 2
    /\ \E k \in 1..Len(trace) : trace[k].op = "find"
    /\ \E k \in 1..Len(trace) : trace[k].op = "set_unknown"

\* the event reports an error that leaves dah_doctor
IsRaise(e) == e.op = "raise" \/ (e.op = "construct" /\ ~e.ok)

\* C7 (Fail loud): a non-I/O error in PrimaryScan or a failed construction
\* ends the run at once: it is the last event of the run, the abort state is
\* never left, no later file is read, and no get_unused, set_unknown or
\* report call is ever made; a failed construction leaves no file read.
FailLoud ==
    /\ [][pc = "Abort" => pc' = "Abort"]_vars
    /\ [](\A k \in 1..Len(trace) : IsRaise(trace[k]) =>
            /\ k = Len(trace)
            /\ pc = "Abort"
            /\ trace[k].op = "construct" => k = 1 /\ line = <<>>)
    /\ [](pc = "Abort" =>
            /\ Len(trace) > 0 /\ IsRaise(trace[Len(trace)])
            /\ \A k \in 1..Len(trace) :
                  /\ trace[k].op \notin {"get_unused", "set_unknown",
                                         "showMissingTech", "show_unused"}
                  /\ trace[k].idx <= trace[Len(trace)].idx)

\* the second of three files raised after the first had been scanned
FailLoudWitness ==
    /\ pc = "Abort"
    /\ Len(luaScripts) = 3
    /\ fileIdx = 2
    /\ ReadOk(1) /\ FindSites(1) # <<>>
    /\ trace[Len(trace)].op = "raise"

\* iteration i of the loop has begun
Started(i) == \E k \in 1..Len(trace) : trace[k].op = "file" /\ trace[k].idx = i

\* C8 (One-file lag): what iteration i writes of Diagnostics is exactly what
\* the scan of file i-1 produced, in production order; it is written after
\* the whole scan of file i-1 and before file i is read; Diagnostics reach
\* the error channel in no other way.
LagFlush ==
    /\ \A i \in 1..Len(luaScripts) : Started(i) =>
          Written(i) = (IF i = 1 THEN <<>> ELSE Produced(i - 1))
    /\ \A k \in 1..Len(trace) :
          (trace[k].op = "stderr" /\ trace[k].cat = "diag") =>
             \A j \in 1..Len(trace) :
                /\ (trace[j].op \in {"find", "diag"}
                    /\ trace[j].idx = trace[k].idx - 1) => j < k
                /\ (trace[j].op \in {"read", "raise"}
                    /\ trace[j].idx = trace[k].idx) => k < j
    /\ DiagLines(stderr) =
          Project(SelectSeq(trace, LAMBDA e : e.op = "stderr" /\ e.cat = "diag"))

\* two consecutive files produced Diagnostics and both batches were written
LagFlushWitness ==
    \E i \in 2..(Len(luaScripts) - 1) :
        /\ Started(i + 1)
        /\ Written(i) # <<>>
        /\ Written(i + 1) # <<>>
        /\ Written(i) # Written(i + 1)

\* the offsets of the line breaks before offset start
BreaksBefore(text, start) == {p \in 0..(start - 1) : text[p + 1] = NL}

\* the offset of the nearest line break before start, -1 when there is none
NearestBreak(text, start) ==
    IF BreaksBefore(text, start) = {} THEN -1
    ELSE CHOOSE p \in BreaksBefore(text, start) :
            \A q \in BreaksBefore(text, start) : q <= p

\* C9 (Line/column): for every offset of a text just read, lineNumber gives
\* the count of line breaks before the offset plus 1 and the distance from
\* the nearest line break before it (-1 when none), both at least 1; every
\* site is reported with the line and column of an offset where its call
\* stands in the text; the call on the third line of a / b / pilot.add("X")
\* is reported at line 3, column 1.
LineColumn ==
    /\ (pc = "PrimaryScan" /\ step = "flush" /\ fileIdx > 1
        /\ ReadOk(fileIdx - 1)) =>
          LET text == DiskText(luaScripts[fileIdx - 1]) IN
          \A start \in 0..Len(text) :
              LET r == lineNumber(text, start)
                  before == BreaksBefore(text, start)
                  nearest == IF before = {} THEN -1
                             ELSE CHOOSE p \in before : \A q \in before : q <= p
              IN /\ r.lineno = Cardinality(before) + 1
                 /\ r.offset = start - nearest
                 /\ r.lineno >= 1
                 /\ r.offset >= 1
    /\ \A k \in 1..Len(trace) : trace[k].op = "find" =>
          LET text == DiskText(luaScripts[trace[k].idx])
              call == trace[k].func \o <<"(", QUOTE>> \o trace[k].arg
          IN \E start \in 0..Len(text) :
                /\ LiteralAt(call, text, start)
                /\ trace[k].ln = Cardinality(BreaksBefore(text, start)) + 1
                /\ trace[k].col = start - NearestBreak(text, start)
    /\ \A i \in 1..Len(luaScripts) :
          (Scanned(i) /\ DiskText(luaScripts[i]) = TextThirdLine) =>
             FindSites(i) = <<[lineno |-> 3, offset |-> 1,
                               func |-> FnPilotAdd, content |-> <<"X">>]>>

\* the third-line call was reported, and so was a call that is not at the
\* start of its line
LineColumnWitness ==
    /\ \E k \in 1..Len(trace) :
          /\ trace[k].op = "diag" /\ trace[k].arg = <<"X">>
          /\ trace[k].ln = 3 /\ trace[k].col = 1
    /\ \E k \in 1..Len(trace) : trace[k].op = "find" /\ trace[k].col > 1

\* the positions in the log of the report calls named op on category c
ReportCalls(op, c) ==
    {k \in 1..Len(trace) : trace[k].op = op /\ trace[k].cat = c}

\* C10 (Report): a finished run has called showMissingTech exactly on the
\* ship and outfit registries whatever the flag and the unused sets, and
\* show_unused on each of the four registries exactly when show_unused is
\* set; these calls follow every find, get_unused and set_unknown call, and
\* none is made before the Report step.
ReportState ==
    /\ pc # "Done" =>
          \A k \in 1..Len(trace) :
              trace[k].op \notin {"showMissingTech", "show_unused"}
    /\ pc = "Done" =>
          /\ \A c \in CategorySet :
                /\ Cardinality(ReportCalls("showMissingTech", c)) =
                      (IF c \in {"ship", "outfit"} THEN 1 ELSE 0)
                /\ Cardinality(ReportCalls("show_unused", c)) =
                      (IF show_unused THEN 1 ELSE 0)
          /\ \A j, k \in 1..Len(trace) :
                (/\ trace[j].op \in {"showMissingTech", "show_unused"}
                 /\ trace[k].op \in {"find", "get_unused", "set_unknown"})
                => k < j

\* a finished run with the flag set and every unused set empty
ReportStateWitness ==
    /\ pc = "Done"
    /\ show_unused
    /\ unused_data = <<>>
    /\ Len(line) > 0

\* C11 (Termination): once construction has succeeded the run reaches Done,
\* or it reaches the abort state and then the last thing that happened is a
\* raised non-I/O error; an unresolved reference or an unreadable file never
\* ends the run in the abort state.
Termination ==
    (pc = "PrimaryScan") ~>
        \/ pc = "Done"
        \/ /\ pc = "Abort"
           /\ Len(trace) > 0
           /\ IsRaise(trace[Len(trace)])

\* a run with an unreadable file and an unresolved reference has reached Done
TerminationWitness ==
    /\ pc = "Done"
    /\ \E i \in 1..Len(luaScripts) : ReadFailed(i)
    /\ \E k \in 1..Len(trace) : trace[k].op = "diag"

MatcherKeys == {unused_data[u].key : u \in 1..Len(unused_data)}

\* C13 (Empty categories dropped): a category for which get_unused returned
\* the empty set has no entry in unused_data, hence no matcher, and no
\* set_unknown call is ever made on its registry; a category for which it
\* returned names is recorded with exactly those names; when nothing is
\* recorded no set_unknown call is made at all; and the step after
\* SecondaryScan is Report.
EmptyDropped ==
    /\ [](\A k \in 1..Len(trace) : trace[k].op = "get_unused" =>
            LET c == trace[k].cat IN
            /\ trace[k].res = {} =>
                  /\ c \notin MatcherKeys
                  /\ \A m \in 1..Len(trace) :
                        trace[m].op = "set_unknown" => trace[m].cat # c
            /\ trace[k].res # {} =>
                  \E u \in 1..Len(unused_data) :
                      /\ unused_data[u].key = c
                      /\ {unused_data[u].data[n] :
                            n \in 1..Len(unused_data[u].data)} = trace[k].res)
    /\ [](unused_data = <<>> =>
            \A m \in 1..Len(trace) : trace[m].op # "set_unknown")
    /\ [][pc = "SecondaryScan" => pc' = "Report"]_vars

\* SecondaryScan is over: one category had nothing unused, and set_unknown was
\* called on another
EmptyDroppedWitness ==
    /\ pc = "Report"
    /\ \E k \in 1..Len(trace) :
          trace[k].op = "get_unused" /\ trace[k].res = {}
    /\ \E m \in 1..Len(trace) : trace[m].op = "set_unknown"

\* the find calls made so far for name n by sites whose call kind belongs to
\* category c
FindCalls(c, n) ==
    {k \in 1..Len(trace) :
        /\ trace[k].op = "find"
        /\ KindRegistry(trace[k].func) = c
        /\ trace[k].arg = n}

\* C14 (Dispatch by call kind): every find call is made on the registry of
\* its site's call kind (pilot.add on fleet, player.addShip on ship, addOutfit
\* on outfit, diff.apply on unidiff), a scanned file has one find call per
\* site, and until SecondaryScan marks names the usage count of an entity is
\* the number of sites of its own category that named it: a site leaves the
\* counts of the three other registries alone, also for a name they know.
DispatchByKind ==
    /\ \A k \in 1..Len(trace) : trace[k].op = "find" =>
          trace[k].cat = KindRegistry(trace[k].func)
    /\ \A i \in 1..Len(luaScripts) : Scanned(i) =>
          Len(FindSites(i)) = Len(SitesOf[luaScripts[i]])
    /\ (\A m \in 1..Len(trace) : trace[m].op # "set_unknown") =>
          \A c \in CategorySet : \A n \in DOMAIN reg[c] :
              reg[c][n] = Cardinality(FindCalls(c, n))

\* during PrimaryScan a name known as a ship and as an outfit has been
\* referenced as a ship only
DispatchByKindWitness ==
    /\ pc = "PrimaryScan"
    /\ reg["ship"][NameL] >= 1
    /\ reg["outfit"][NameL] = 0
    /\ \E k \in 1..Len(trace) :
          /\ trace[k].op = "find"
          /\ trace[k].func = FnPlayerAddShip
          /\ trace[k].arg = NameL

\* the text g is what the matcher of category c matches for one of the
\* unused names of c
MatchedBy(g, c) ==
    \E u \in 1..Len(unused_data) :
        /\ unused_data[u].key = c
        /\ \E n \in 1..Len(unused_data[u].data) :
              LET pat == NameToPattern(unused_data[u].data[n]) IN
              /\ Len(pat) = Len(g)
              /\ \A t \in 1..Len(pat) : TokenMatches(pat[t], g[t])

\* the text g stands somewhere in content
StandsIn(g, content) ==
    \E off \in 0..(Len(content) - Len(g)) :
        SubSeq(content, off + 1, off + Len(g)) = g

\* C15 (SecondaryScan frame): the SecondaryScan step makes set_unknown calls
\* only; each is made on the registry of a category that has a matcher, with a
\* text of a cached file that this matcher matches; the pending list and the
\* error channel are left alone; the set of entities of no registry changes,
\* and an entity whose name was not the argument of a call on its own registry
\* keeps its usage count.
SecondaryScanFrame ==
    [][pc = "SecondaryScan" =>
        /\ errors' = errors
        /\ stderr' = stderr
        /\ Len(trace') >= Len(trace)
        /\ SubSeq(trace', 1, Len(trace)) = trace
        /\ \A k \in (Len(trace) + 1)..Len(trace') :
              /\ trace'[k].op = "set_unknown"
              /\ trace'[k].idx \in 1..Len(line)
              /\ StandsIn(trace'[k].arg, line[trace'[k].idx].content)
              /\ MatchedBy(trace'[k].arg, trace'[k].cat)
              /\ trace'[k].ok = (trace'[k].arg \in DOMAIN reg[trace'[k].cat])
              /\ trace'[k].ok => reg'[trace'[k].cat][trace'[k].arg] >= 1
        /\ \A c \in CategorySet :
              /\ DOMAIN reg'[c] = DOMAIN reg[c]
              /\ \A n \in DOMAIN reg[c] :
                    (~\E k \in (Len(trace) + 1)..Len(trace') :
                          trace'[k].cat = c /\ trace'[k].arg = n)
                    => reg'[c][n] = reg[c][n]]_vars

\* SecondaryScan is over: one call marked an entity, another was made with a
\* matched text that names no entity, and an entity is still unused
SecondaryScanFrameWitness ==
    /\ pc = "Report"
    /\ \E k \in 1..Len(trace) : trace[k].op = "set_unknown" /\ trace[k].ok
    /\ \E k \in 1..Len(trace) : trace[k].op = "set_unknown" /\ ~trace[k].ok
    /\ \E c \in CategorySet : get_unused(reg, c) # {}

\* C16 (Pending-list invariant): during PrimaryScan the pending list is empty
\* when the scan of a file begins, and between two files it holds exactly the
\* Diagnostics of the file scanned last, none of an earlier file; when a scan
\* is cut short by an error it holds the Diagnostics of that file so far; and
\* the Diagnostics on the error channel are the first ones produced, each
\* written once, in the order of production.
PendingList ==
    /\ (pc = "PrimaryScan" /\ step = "read") => errors = <<>>
    /\ (pc = "PrimaryScan" /\ step = "flush") =>
          errors = (IF fileIdx = 1 THEN <<>> ELSE Produced(fileIdx - 1))
    /\ (pc = "Abort" /\ Len(trace) > 0 /\ trace[Len(trace)].op = "raise") =>
          errors = Produced(trace[Len(trace)].idx)
    /\ Len(DiagLines(stderr)) <= Len(ProducedAll)
    /\ DiagLines(stderr) = SubSeq(ProducedAll, 1, Len(DiagLines(stderr)))
    /\ Len(DiagLines(stderr)) =
          Cardinality({k \in 1..Len(trace) :
                          trace[k].op = "stderr" /\ trace[k].cat = "diag"})

\* between the second and the third file: both scanned files produced
\* Diagnostics, and the pending list holds those of the second
PendingListWitness ==
    /\ pc = "PrimaryScan"
    /\ step = "flush"
    /\ fileIdx >= 3
    /\ errors # <<>>
    /\ Produced(fileIdx - 2) # <<>>
    /\ Produced(fileIdx - 2) # Produced(fileIdx - 1)

\* the cache entries kept for the path of iteration i
EntriesOf(i) == {f \in 1..Len(line) : line[f].file = luaScripts[i]}

\* C17 as stated (Cache contents): after PrimaryScan the cache holds exactly
\* one entry for each path that was read successfully and no entry for a path
\* whose read failed; a file whose read failed made no find call and no
\* Diagnostic, and no set_unknown call comes from a text cached for its path.
CacheContentsAsStated ==
    AfterPrimaryScan =>
        /\ \A i \in 1..Len(luaScripts) :
              /\ ReadOk(i) => Cardinality(EntriesOf(i)) = 1
              /\ ReadFailed(i) =>
                    /\ EntriesOf(i) = {}
                    /\ FindSites(i) = <<>>
                    /\ Produced(i) = <<>>
                    /\ \A k \in 1..Len(trace) :
                          trace[k].op = "set_unknown" =>
                              trace[k].idx \notin EntriesOf(i)
        /\ \A f \in 1..Len(line) :
              \E i \in 1..Len(luaScripts) :
                  ReadOk(i) /\ line[f].file = luaScripts[i]

\* C17 (Cache contents, amended): after PrimaryScan the cache holds exactly
\* one entry, the text read, for each path of which a read succeeded, and no
\* entry for a path of which no read succeeded; an iteration whose read
\* failed made no find call and no Diagnostic; and every set_unknown call of
\* SecondaryScan comes from a cached text.
CacheContents ==
    AfterPrimaryScan =>
        /\ \A i \in 1..Len(luaScripts) :
              /\ ReadOk(i) =>
                    /\ Cardinality(EntriesOf(i)) = 1
                    /\ \A f \in EntriesOf(i) :
                          line[f].content = DiskText(luaScripts[i])
              /\ ReadFailed(i) =>
                    /\ FindSites(i) = <<>>
                    /\ Produced(i) = <<>>
                    /\ (\A j \in 1..Len(luaScripts) :
                           luaScripts[j] = luaScripts[i] => ~ReadOk(j))
                       => EntriesOf(i) = {}
        /\ \A f \in 1..Len(line) :
              \E i \in 1..Len(luaScripts) :
                  ReadOk(i) /\ line[f].file = luaScripts[i]
        /\ \A k \in 1..Len(trace) : trace[k].op = "set_unknown" =>
              /\ trace[k].idx \in 1..Len(line)
              /\ StandsIn(trace[k].arg, line[trace[k].idx].content)

\* SecondaryScan is over: one path was read twice, another path could not be
\* read, and a set_unknown call was made
CacheContentsWitness ==
    /\ pc = "Report"
    /\ \E i, j \in 1..Len(luaScripts) :
          i < j /\ luaScripts[i] = luaScripts[j] /\ ReadOk(i) /\ ReadOk(j)
    /\ \E i \in 1..Len(luaScripts) : ReadFailed(i) /\ EntriesOf(i) = {}
    /\ \E k \in 1..Len(trace) : trace[k].op = "set_unknown"

====
